---- MODULE Spec2Model ----
(***************************************************************************)
(* po-missing: for every locale directory under a base directory, merge    *)
(* the completed translations of messages-missing.po back into             *)
(* messages.po and recompute messages-missing.po from messages.po.         *)
(* Model of src/src/main.rs: extract_missing_translations (the walker),    *)
(* process_locale and extract_current_missing.                             *)
(***************************************************************************)
EXTENDS Integers, Sequences, FiniteSets, TLC

(***************************************************************************)
(* Bounds of the model.                                                    *)
(***************************************************************************)
MaxMainLen == 2      \* entries of a messages.po in the one-locale inputs
MaxMissLen == 2      \* entries of a messages-missing.po in the one-locale inputs
MaxDirEntries == 2   \* entries of the base directory in the many-locale inputs
MaxRuns == 2         \* runs of the program on the same tree
MaxFaults == 1       \* file operations that fail, over all runs
MaxEditLen == 1      \* entries of a messages-missing.po put in place between runs

(***************************************************************************)
(* Option<T>: None is the empty tuple, Some(x) the one-element tuple.      *)
(* A String that the code trims is a sequence of characters.               *)
(***************************************************************************)
None == <<>>
Some(x) == <<x>>
is_some(o) == o # None
unwrap(o) == o[1]

SP == " "

RECURSIVE trim_start(_)
trim_start(s) ==
    IF s = <<>> THEN s
    ELSE IF Head(s) = SP THEN trim_start(Tail(s)) ELSE s

RECURSIVE trim_end(_)
trim_end(s) ==
    IF s = <<>> THEN s
    ELSE IF s[Len(s)] = SP THEN trim_end(SubSeq(s, 1, Len(s) - 1)) ELSE s

\* str::trim
trim(s) == trim_end(trim_start(s))

(***************************************************************************)
(* POEntry (the fields the program reads) and files on disk.  A file is    *)
(* absent, unparseable ("corrupt") or a PO file, held as the entries the   *)
(* parser reads from it.                                                   *)
(***************************************************************************)
POEntry(id, ctxt, str) == [msgid |-> id, msgctxt |-> ctxt, msgstr |-> str]

Absent == [kind |-> "absent", entries |-> <<>>]
Corrupt == [kind |-> "corrupt", entries |-> <<>>]
POFile(es) == [kind |-> "po", entries |-> es]

exists(f) == f.kind # "absent"

\* rspolib::pofile(path): Ok(entries) or Err
pofile(f) ==
    IF f.kind = "po" THEN [ok |-> TRUE, entries |-> f.entries]
    ELSE [ok |-> FALSE, entries |-> <<>>]

\* What POFile::save writes for one entry: an entry without msgstr is written
\* with an empty msgstr line, and reads back as Some("").
to_string_entry(e) ==
    IF e.msgstr = None THEN [e EXCEPT !.msgstr = Some(<<>>)] ELSE e

\* POFile::save(path) when the write succeeds: the file holds the serialization
save(es) == POFile([i \in 1..Len(es) |-> to_string_entry(es[i])])

(***************************************************************************)
(* process_locale, lines 86-95, 161-165, 174-177: what the existence       *)
(* checks and the loads decide.  "skip": Ok at once; "err": the main load  *)
(* failed; "merge": both files were read; "extract": only main was read.   *)
(***************************************************************************)
\* variant: an unparseable missing file is an error of the locale
load_outcome_strict(main, missing) ==
    IF ~exists(main) THEN "skip"
    ELSE IF exists(missing) /\ ~pofile(missing).ok THEN "err"
    ELSE IF exists(missing)
         THEN (IF pofile(main).ok THEN "merge" ELSE "err")
         ELSE (IF pofile(main).ok THEN "extract" ELSE "err")

\* variant: no existence check of messages.po before the loads
load_outcome_no_skip(main, missing) ==
    IF exists(missing) /\ pofile(missing).ok
    THEN (IF pofile(main).ok THEN "merge" ELSE "err")
    ELSE (IF pofile(main).ok THEN "extract" ELSE "err")

\* variant: a main file that does not parse is taken as an empty catalog
load_outcome_lenient(main, missing) ==
    IF ~exists(main) THEN "skip"
    ELSE IF exists(missing) /\ pofile(missing).ok THEN "merge"
    ELSE "extract"

load_outcome(main, missing) ==
    IF ~exists(main) THEN "skip"
    ELSE IF exists(missing) /\ pofile(missing).ok
         THEN (IF pofile(main).ok THEN "merge" ELSE "err")
         ELSE (IF pofile(main).ok THEN "extract" ELSE "err")

(***************************************************************************)
(* process_locale, lines 101-122: the merge-back loop.                     *)
(***************************************************************************)
\* variant: the msgstr is not trimmed before the emptiness test
has_translation_untrimmed(e) == is_some(e.msgstr) /\ unwrap(e.msgstr) # <<>>

\* lines 108-109: the missing entry carries a completed translation
has_translation(e) == is_some(e.msgstr) /\ trim(unwrap(e.msgstr)) # <<>>

\* lines 113-115: iter_mut().find(...), as the index of the first match or 0
RECURSIVE find_from(_, _, _)
find_from(entries, m, i) ==
    IF i > Len(entries) THEN 0
    ELSE IF entries[i].msgid = m.msgid /\ entries[i].msgctxt = m.msgctxt THEN i
    ELSE find_from(entries, m, i + 1)

\* variant: the last match instead of the first
RECURSIVE find_back(_, _, _)
find_back(entries, m, i) ==
    IF i < 1 THEN 0
    ELSE IF entries[i].msgid = m.msgid /\ entries[i].msgctxt = m.msgctxt THEN i
    ELSE find_back(entries, m, i - 1)

find_main_entry_last(entries, m) == find_back(entries, m, Len(entries))

find_main_entry(entries, m) == find_from(entries, m, 1)

\* variant: the header entry is not passed over
merge_step_with_header(st, m) ==
    IF ~has_translation(m) THEN st
    ELSE LET i == find_main_entry(st.main_po, m) IN
         IF i = 0
         THEN [st EXCEPT !.has_non_empty_translations = TRUE]
         ELSE [main_po |-> [st.main_po EXCEPT ![i].msgstr = Some(unwrap(m.msgstr))],
               updated_count |-> st.updated_count + 1,
               has_non_empty_translations |-> TRUE]

\* variant: the msgstr of the missing entry is copied whatever it is
merge_step_unchecked(st, m) ==
    IF m.msgid = "" THEN st
    ELSE LET i == find_main_entry(st.main_po, m) IN
         IF i = 0
         THEN [st EXCEPT !.has_non_empty_translations = TRUE]
         ELSE [main_po |-> [st.main_po EXCEPT ![i].msgstr = m.msgstr],
               updated_count |-> st.updated_count + 1,
               has_non_empty_translations |-> TRUE]

\* one iteration of the loop over missing_po.entries, on the loop's state
merge_step(st, m) ==
    IF m.msgid = "" THEN st
    ELSE IF ~has_translation(m) THEN st
    ELSE LET i == find_main_entry(st.main_po, m) IN
         IF i = 0
         THEN [st EXCEPT !.has_non_empty_translations = TRUE]
         ELSE [main_po |-> [st.main_po EXCEPT ![i].msgstr = Some(unwrap(m.msgstr))],
               updated_count |-> st.updated_count + 1,
               has_non_empty_translations |-> TRUE]

RECURSIVE merge_loop(_, _, _)
merge_loop(st, missing, k) ==
    IF k > Len(missing) THEN st
    ELSE merge_loop(merge_step(st, missing[k]), missing, k + 1)

merge_back(main, missing) ==
    merge_loop([main_po |-> main, updated_count |-> 0,
                has_non_empty_translations |-> FALSE], missing, 1)

\* variant: the test is on the number of entries updated
save_gate_updated(st) == st.updated_count > 0

\* line 125: the condition under which main is saved and missing removed
save_gate(st) == st.has_non_empty_translations

(***************************************************************************)
(* extract_current_missing, lines 204-230: the recomputed catalog.         *)
(***************************************************************************)
\* variant: the msgstr is not trimmed before the emptiness test
is_missing_untrimmed(e) ==
    IF e.msgstr = None THEN TRUE ELSE unwrap(e.msgstr) = <<>>

\* lines 221-224
is_missing(e) ==
    IF e.msgstr = None THEN TRUE ELSE trim(unwrap(e.msgstr)) = <<>>

\* lines 208-210: the first entry with an empty msgid, if any
RECURSIVE find_header(_, _)
find_header(entries, i) ==
    IF i > Len(entries) THEN <<>>
    ELSE IF entries[i].msgid = "" THEN <<entries[i]>>
    ELSE find_header(entries, i + 1)

\* lines 213-230
RECURSIVE missing_loop(_, _, _)
missing_loop(st, entries, i) ==
    IF i > Len(entries) THEN st
    ELSE IF entries[i].msgid = "" THEN missing_loop(st, entries, i + 1)
    ELSE IF is_missing(entries[i])
         THEN missing_loop([entries |-> Append(st.entries, entries[i]),
                            missing_count |-> st.missing_count + 1], entries, i + 1)
         ELSE missing_loop(st, entries, i + 1)

\* variant: the header of main is not copied
new_missing_no_header(main) ==
    missing_loop([entries |-> <<>>, missing_count |-> 0], main, 1)

new_missing(main) ==
    missing_loop([entries |-> find_header(main, 1), missing_count |-> 0], main, 1)

\* variant: the test is on the entries of the new catalog, header included
write_gate_any_entry(nm) == Len(nm.entries) > 0

\* line 233: the condition under which messages-missing.po is written
write_gate(nm) == nm.missing_count > 0

(***************************************************************************)
(* Inputs: the trees the program is run on.                                *)
(***************************************************************************)
SeqsUpTo(S, n) == UNION {[1..k -> S] : k \in 0..n}

Header == POEntry("", None, Some(<<"h">>))

MainEntries ==
    {Header} \cup
    {POEntry("a", None, s) : s \in {None, Some(<<SP>>), Some(<<"y">>)}} \cup
    {POEntry("a", Some("c"), None)}
MissEntries ==
    {Header} \cup
    {POEntry("a", None, s) : s \in {None, Some(<<SP>>), Some(<<SP, "x">>)}} \cup
    {POEntry("a", Some("c"), s) : s \in {Some(<<SP, "x">>)}}

MainFiles == {Absent, Corrupt} \cup {POFile(es) : es \in SeqsUpTo(MainEntries, MaxMainLen)}
MissFiles == {Absent, Corrupt} \cup {POFile(es) : es \in SeqsUpTo(MissEntries, MaxMissLen)}

\* an entry of the base directory: a plain file, or a locale directory
DirEntry(d, m, x) == [isDir |-> d, main |-> m, missing |-> x]
NotDir == DirEntry(FALSE, Absent, Absent)

SmallMain == {Absent, Corrupt, POFile(<<POEntry("a", None, None)>>)}
SmallMiss == {Absent, POFile(<<POEntry("a", None, Some(<<SP, "x">>))>>)}
SmallEntries == {NotDir} \cup {DirEntry(TRUE, m, x) : m \in SmallMain, x \in SmallMiss}

OneLocaleTrees == {<<DirEntry(TRUE, m, x)>> : m \in MainFiles, x \in MissFiles}
ManyLocaleTrees == SeqsUpTo(SmallEntries, MaxDirEntries)

(***************************************************************************)
(* State.                                                                  *)
(***************************************************************************)
VARIABLES
    base_exists,    \* Path::new(base_path).exists()
    dir,            \* the base directory: its entries, in read_dir order
    pc,             \* position of the program
    idx,            \* the read_dir entry the walker is at
    processed,      \* line 42
    errors,         \* line 43
    outcome,        \* result of extract_missing_translations, or "panic"
    ret,            \* result of the current process_locale call
    main_po,        \* process_locale's main_po.entries
    missing_po,     \* process_locale's missing_po.entries
    updated_count,  \* line 97
    has_non_empty_translations,  \* line 98
    new_missing_po, \* extract_current_missing's new_missing_po.entries
    missing_count,  \* line 213
    run,            \* number of the current run of the program
    hist            \* history of the run, read by the properties only

vars == <<base_exists, dir, pc, idx, processed, errors, outcome, ret, main_po,
          missing_po, updated_count, has_non_empty_translations, new_missing_po,
          missing_count, run, hist>>

locals == <<main_po, missing_po, updated_count, has_non_empty_translations,
            new_missing_po, missing_count>>

\* hist: what a call of process_locale found and did
NoCall == [at_idx |-> 0,             \* the directory entry of the call
           at_call |-> NotDir,       \* the locale's files when the call began
           errors_before |-> 0,      \* the walker's errors when the call began
           loaded_main |-> <<>>,     \* main_po as first loaded
           merged_main |-> <<>>,     \* main_po when the merge-back loop ended
           merged |-> FALSE,         \* the merge-back loop ran
           main_writes |-> 0,        \* successful rewrites of messages.po
           missing_writes |-> 0,     \* successful rewrites of messages-missing.po
           missing_deletes |-> 0,    \* successful deletions of messages-missing.po
           save_failed |-> FALSE,    \* a save of this call failed
           delete_failed |-> FALSE,  \* a remove_file of this call failed
           extracted |-> FALSE,      \* extract_current_missing ran
           log |-> <<>>]             \* the file operations begun, in order

InitHist == [call |-> NoCall,
             first_dir |-> <<>>,     \* the tree before the first run
             calls |-> <<>>,         \* per directory entry: calls of process_locale
             results |-> <<>>,       \* per directory entry: the call's result
             faults |-> 0,           \* file operations that failed, over all runs
             edited_run |-> 0,       \* the run before which a missing file was edited last
             prev_dir |-> <<>>,      \* the tree at the end of the previous run
             prev_results |-> <<>>]

Init ==
    /\ \/ /\ base_exists = TRUE
          /\ dir \in OneLocaleTrees \cup ManyLocaleTrees
       \/ /\ base_exists = FALSE
          /\ dir = <<>>
    /\ pc = "start"
    /\ idx = 1
    /\ processed = 0
    /\ errors = 0
    /\ outcome = "none"
    /\ ret = "none"
    /\ main_po = <<>>
    /\ missing_po = <<>>
    /\ updated_count = 0
    /\ has_non_empty_translations = FALSE
    /\ new_missing_po = <<>>
    /\ missing_count = 0
    /\ run = 1
    /\ hist = [InitHist EXCEPT !.first_dir = dir,
                               !.calls = [i \in 1..Len(dir) |-> 0],
                               !.results = [i \in 1..Len(dir) |-> "none"]]

(***************************************************************************)
(* extract_missing_translations, lines 36-78.                              *)
(***************************************************************************)
\* lines 37-43
Start ==
    /\ pc = "start"
    /\ IF base_exists
       THEN pc' = "walk" /\ outcome' = outcome
       ELSE pc' = "done" /\ outcome' = "Err"
    /\ UNCHANGED <<base_exists, dir, idx, processed, errors, ret, locals, run, hist>>

\* lines 45-51: an entry that is not a directory is passed over
SkipEntry ==
    /\ pc = "walk"
    /\ idx <= Len(dir)
    /\ ~dir[idx].isDir
    /\ idx' = idx + 1
    /\ UNCHANGED <<base_exists, dir, pc, processed, errors, outcome, ret, locals,
                   run, hist>>

\* lines 51-53: process_locale is called for a directory
CallProcessLocale ==
    /\ pc = "walk"
    /\ idx <= Len(dir)
    /\ dir[idx].isDir
    /\ pc' = "pl_start"
    /\ ret' = "none"
    /\ hist' = [hist EXCEPT !.call = [NoCall EXCEPT !.at_idx = idx,
                                                    !.at_call = dir[idx],
                                                    !.errors_before = errors],
                            !.calls[idx] = @ + 1]
    /\ main_po' = <<>>
    /\ missing_po' = <<>>
    /\ updated_count' = 0
    /\ has_non_empty_translations' = FALSE
    /\ new_missing_po' = <<>>
    /\ missing_count' = 0
    /\ UNCHANGED <<base_exists, dir, idx, processed, errors, outcome, run>>

\* variant: an error of a locale ends the loop
TallyStopsOnError ==
    /\ pc = "pl_ret"
    /\ IF ret = "Ok"
       THEN processed' = processed + 1 /\ errors' = errors /\ idx' = idx + 1
       ELSE errors' = errors + 1 /\ processed' = processed /\ idx' = Len(dir) + 1
    /\ hist' = [hist EXCEPT !.results[idx] = ret]
    /\ pc' = "walk"
    /\ UNCHANGED <<base_exists, dir, outcome, ret, locals, run>>

\* lines 53-61: the call's result is tallied
Tally ==
    /\ pc = "pl_ret"
    /\ IF ret = "Ok"
       THEN processed' = processed + 1 /\ errors' = errors
       ELSE errors' = errors + 1 /\ processed' = processed
    /\ hist' = [hist EXCEPT !.results[idx] = ret]
    /\ idx' = idx + 1
    /\ pc' = "walk"
    /\ UNCHANGED <<base_exists, dir, outcome, ret, locals, run>>

\* lines 66-77: the loop is over
Finish ==
    /\ pc = "walk"
    /\ idx > Len(dir)
    /\ pc' = "done"
    /\ outcome' = IF errors > 0 THEN "Err" ELSE "Ok"
    /\ UNCHANGED <<base_exists, dir, idx, processed, errors, ret, locals, run, hist>>

(***************************************************************************)
(* process_locale, lines 80-188.                                           *)
(***************************************************************************)
\* lines 86-95, 161-165, 174-177: the existence checks and the loads
Load ==
    /\ pc = "pl_start"
    /\ LET e == dir[idx]
           o == load_outcome(e.main, e.missing)
       IN
       /\ ret' = (IF o = "skip" THEN "Ok" ELSE IF o = "err" THEN "Err" ELSE ret)
       /\ pc' = (IF o \in {"skip", "err"} THEN "pl_ret"
                 ELSE IF o = "merge" THEN "pl_merge" ELSE "pl_extract")
       /\ main_po' = (IF o \in {"merge", "extract"} THEN pofile(e.main).entries
                      ELSE main_po)
       /\ missing_po' = (IF o = "merge" THEN pofile(e.missing).entries ELSE missing_po)
       /\ hist' = (IF o \in {"merge", "extract"}
                   THEN [hist EXCEPT !.call.loaded_main = pofile(e.main).entries]
                   ELSE hist)
    /\ UNCHANGED <<base_exists, dir, idx, processed, errors, outcome, updated_count,
                   has_non_empty_translations, new_missing_po, missing_count, run>>

\* lines 97-125, 151: the merge-back loop and the test on its outcome
Merge ==
    /\ pc = "pl_merge"
    /\ LET st == merge_back(main_po, missing_po) IN
       /\ main_po' = st.main_po
       /\ updated_count' = st.updated_count
       /\ has_non_empty_translations' = st.has_non_empty_translations
       /\ pc' = IF save_gate(st) THEN "pl_save" ELSE "pl_extract"
    /\ hist' = [hist EXCEPT !.call.merged = TRUE,
                            !.call.merged_main = merge_back(main_po, missing_po).main_po]
    /\ UNCHANGED <<base_exists, dir, idx, processed, errors, outcome, ret, missing_po,
                   new_missing_po, missing_count, run>>

\* line 126: main_po.save(..); the call yields no result to test
SaveMain ==
    /\ pc = "pl_save"
    /\ dir' = [dir EXCEPT ![idx].main = save(main_po)]
    /\ hist' = [hist EXCEPT !.call.main_writes = @ + 1,
                            !.call.log = Append(@, "save_main")]
    /\ pc' = "pl_remove"
    /\ UNCHANGED <<base_exists, idx, processed, errors, outcome, ret, locals, run>>

\* line 126, the write fails and the failure goes unnoticed
SaveMainFails ==
    /\ hist.faults < MaxFaults
    /\ pc = "pl_save"
    /\ hist' = [hist EXCEPT !.call.save_failed = TRUE, !.faults = @ + 1,
                            !.call.log = Append(@, "save_main")]
    /\ pc' = "pl_remove"
    /\ UNCHANGED <<base_exists, dir, idx, processed, errors, outcome, ret, locals, run>>

\* line 126, the write fails and save panics: the process ends
SaveMainPanics ==
    /\ hist.faults < MaxFaults
    /\ pc = "pl_save"
    /\ hist' = [hist EXCEPT !.call.save_failed = TRUE, !.faults = @ + 1,
                            !.call.log = Append(@, "save_main")]
    /\ pc' = "panicked"
    /\ outcome' = "panic"
    /\ UNCHANGED <<base_exists, dir, idx, processed, errors, ret, locals, run>>

\* line 136: fs::remove_file(&messages_missing_path)?
RemoveMissing ==
    /\ pc = "pl_remove"
    /\ dir' = [dir EXCEPT ![idx].missing = Absent]
    /\ hist' = [hist EXCEPT !.call.missing_deletes = @ + 1,
                            !.call.log = Append(@, "remove_missing")]
    /\ pc' = "pl_reload"
    /\ UNCHANGED <<base_exists, idx, processed, errors, outcome, ret, locals, run>>

RemoveMissingFails ==
    /\ hist.faults < MaxFaults
    /\ pc = "pl_remove"
    /\ hist' = [hist EXCEPT !.call.delete_failed = TRUE, !.faults = @ + 1,
                            !.call.log = Append(@, "remove_missing")]
    /\ ret' = "Err"
    /\ pc' = "pl_ret"
    /\ UNCHANGED <<base_exists, dir, idx, processed, errors, outcome, locals, run>>

\* variant: the catalog in memory is kept, the file is not read again
ReloadKeepsMemory ==
    /\ pc = "pl_reload"
    /\ pc' = "pl_extract"
    /\ hist' = [hist EXCEPT !.call.log = Append(@, "reload")]
    /\ UNCHANGED <<base_exists, dir, idx, processed, errors, outcome, ret, locals, run>>

\* lines 139-141: main is read again from the file
Reload ==
    /\ pc = "pl_reload"
    /\ LET main == pofile(dir[idx].main) IN
       IF main.ok
       THEN main_po' = main.entries /\ pc' = "pl_extract" /\ ret' = ret
       ELSE main_po' = main_po /\ pc' = "pl_ret" /\ ret' = "Err"
    /\ hist' = [hist EXCEPT !.call.log = Append(@, "reload")]
    /\ UNCHANGED <<base_exists, dir, idx, processed, errors, outcome, missing_po,
                   updated_count, has_non_empty_translations, new_missing_po,
                   missing_count, run>>

(***************************************************************************)
(* extract_current_missing, lines 190-252, called at lines 144, 153, 166   *)
(* and 178 with the main_po of the caller.                                 *)
(***************************************************************************)
Extracted(nm) ==
    /\ new_missing_po' = nm.entries
    /\ missing_count' = nm.missing_count

\* lines 233-234: the recomputed catalog is saved
ExtractSave ==
    /\ pc = "pl_extract"
    /\ LET nm == new_missing(main_po) IN
       /\ write_gate(nm)
       /\ Extracted(nm)
       /\ dir' = [dir EXCEPT ![idx].missing = save(nm.entries)]
    /\ hist' = [hist EXCEPT !.call.extracted = TRUE, !.call.log = Append(@, "extract"), !.call.missing_writes = @ + 1]
    /\ ret' = "Ok"
    /\ pc' = "pl_ret"
    /\ UNCHANGED <<base_exists, idx, processed, errors, outcome, main_po, missing_po,
                   updated_count, has_non_empty_translations, run>>

\* line 234, the write fails and the failure goes unnoticed
ExtractSaveFails ==
    /\ hist.faults < MaxFaults
    /\ pc = "pl_extract"
    /\ LET nm == new_missing(main_po) IN
       /\ write_gate(nm)
       /\ Extracted(nm)
    /\ hist' = [hist EXCEPT !.call.extracted = TRUE, !.call.log = Append(@, "extract"), !.call.save_failed = TRUE,
                            !.faults = @ + 1]
    /\ ret' = "Ok"
    /\ pc' = "pl_ret"
    /\ UNCHANGED <<base_exists, dir, idx, processed, errors, outcome, main_po,
                   missing_po, updated_count, has_non_empty_translations, run>>

\* line 234, the write fails and save panics: the process ends
ExtractSavePanics ==
    /\ hist.faults < MaxFaults
    /\ pc = "pl_extract"
    /\ LET nm == new_missing(main_po) IN
       /\ write_gate(nm)
       /\ Extracted(nm)
    /\ hist' = [hist EXCEPT !.call.extracted = TRUE, !.call.log = Append(@, "extract"), !.call.save_failed = TRUE,
                            !.faults = @ + 1]
    /\ pc' = "panicked"
    /\ outcome' = "panic"
    /\ UNCHANGED <<base_exists, dir, idx, processed, errors, ret, main_po, missing_po,
                   updated_count, has_non_empty_translations, run>>

\* variant: the file is removed without the test that it exists
ExtractRemoveUnguarded ==
    /\ pc = "pl_extract"
    /\ LET nm == new_missing(main_po) IN
       /\ ~write_gate(nm)
       /\ Extracted(nm)
    /\ dir' = [dir EXCEPT ![idx].missing = Absent]
    /\ hist' = [hist EXCEPT !.call.extracted = TRUE, !.call.log = Append(@, "extract"),
                            !.call.missing_deletes = @ + 1]
    /\ ret' = "Ok"
    /\ pc' = "pl_ret"
    /\ UNCHANGED <<base_exists, idx, processed, errors, outcome, main_po, missing_po,
                   updated_count, has_non_empty_translations, run>>

\* lines 241-245: nothing is missing and the file exists: it is removed
ExtractRemove ==
    /\ pc = "pl_extract"
    /\ LET nm == new_missing(main_po) IN
       /\ ~write_gate(nm)
       /\ Extracted(nm)
    /\ exists(dir[idx].missing)
    /\ dir' = [dir EXCEPT ![idx].missing = Absent]
    /\ hist' = [hist EXCEPT !.call.extracted = TRUE, !.call.log = Append(@, "extract"), !.call.missing_deletes = @ + 1]
    /\ ret' = "Ok"
    /\ pc' = "pl_ret"
    /\ UNCHANGED <<base_exists, idx, processed, errors, outcome, main_po, missing_po,
                   updated_count, has_non_empty_translations, run>>

\* line 244, remove_file fails
ExtractRemoveFails ==
    /\ hist.faults < MaxFaults
    /\ pc = "pl_extract"
    /\ LET nm == new_missing(main_po) IN
       /\ ~write_gate(nm)
       /\ Extracted(nm)
    /\ exists(dir[idx].missing)
    /\ hist' = [hist EXCEPT !.call.extracted = TRUE, !.call.log = Append(@, "extract"), !.call.delete_failed = TRUE,
                            !.faults = @ + 1]
    /\ ret' = "Err"
    /\ pc' = "pl_ret"
    /\ UNCHANGED <<base_exists, dir, idx, processed, errors, outcome, main_po,
                   missing_po, updated_count, has_non_empty_translations, run>>

\* lines 241-249: nothing is missing and there is no file
ExtractNothing ==
    /\ pc = "pl_extract"
    /\ LET nm == new_missing(main_po) IN
       /\ ~write_gate(nm)
       /\ Extracted(nm)
    /\ ~exists(dir[idx].missing)
    /\ hist' = [hist EXCEPT !.call.extracted = TRUE, !.call.log = Append(@, "extract")]
    /\ ret' = "Ok"
    /\ pc' = "pl_ret"
    /\ UNCHANGED <<base_exists, dir, idx, processed, errors, outcome, main_po,
                   missing_po, updated_count, has_non_empty_translations, run>>

(***************************************************************************)
(* The program is run again on the tree it left.                           *)
(***************************************************************************)
Rerun ==
    /\ pc = "done"
    /\ base_exists
    /\ run < MaxRuns
    /\ run' = run + 1
    /\ pc' = "start"
    /\ idx' = 1
    /\ processed' = 0
    /\ errors' = 0
    /\ outcome' = "none"
    /\ ret' = "none"
    /\ main_po' = <<>>
    /\ missing_po' = <<>>
    /\ updated_count' = 0
    /\ has_non_empty_translations' = FALSE
    /\ new_missing_po' = <<>>
    /\ missing_count' = 0
    /\ hist' = [hist EXCEPT !.call = NoCall,
                            !.calls = [i \in 1..Len(dir) |-> 0],
                            !.results = [i \in 1..Len(dir) |-> "none"],
                            !.prev_dir = dir,
                            !.prev_results = hist.results]
    /\ UNCHANGED <<base_exists, dir>>

Next ==
    \/ Start
    \/ SkipEntry
    \/ CallProcessLocale
    \/ Tally
    \/ Finish
    \/ Load
    \/ Merge
    \/ SaveMain
    \/ SaveMainFails
    \/ SaveMainPanics
    \/ RemoveMissing
    \/ RemoveMissingFails
    \/ Reload
    \/ ExtractSave
    \/ ExtractSaveFails
    \/ ExtractSavePanics
    \/ ExtractRemove
    \/ ExtractRemoveFails
    \/ ExtractNothing
    \/ Rerun

Spec == Init /\ [][Next]_vars

(***************************************************************************)
(* Runs with edits in between: before a run, messages-missing.po of a      *)
(* locale is replaced from outside (the translator's work, lines 90-92     *)
(* read it).  What the history holds of the runs before is void then.      *)
(***************************************************************************)
EditFiles == {Absent, Corrupt} \cup {POFile(es) : es \in SeqsUpTo(MissEntries, MaxEditLen)}

EditTrees == {<<DirEntry(TRUE, m, Absent)>> : m \in MainFiles} \cup ManyLocaleTrees

InitEdit ==
    /\ base_exists = TRUE
    /\ dir \in EditTrees
    /\ pc = "start"
    /\ idx = 1
    /\ processed = 0
    /\ errors = 0
    /\ outcome = "none"
    /\ ret = "none"
    /\ main_po = <<>>
    /\ missing_po = <<>>
    /\ updated_count = 0
    /\ has_non_empty_translations = FALSE
    /\ new_missing_po = <<>>
    /\ missing_count = 0
    /\ run = 1
    /\ hist = [InitHist EXCEPT !.calls = [i \in 1..Len(dir) |-> 0],
                               !.results = [i \in 1..Len(dir) |-> "none"]]

EditMissing ==
    /\ pc = "start"
    /\ hist.edited_run # run
    /\ \E i \in 1..Len(dir) :
           /\ dir[i].isDir
           /\ \E f \in (IF Len(dir) = 1 THEN EditFiles ELSE SmallMiss) :
                  /\ f # dir[i].missing
                  /\ dir' = [dir EXCEPT ![i].missing = f]
    /\ hist' = [hist EXCEPT !.edited_run = run,
                            !.first_dir = <<>>,
                            !.prev_dir = <<>>,
                            !.prev_results = <<>>]
    /\ UNCHANGED <<base_exists, pc, idx, processed, errors, outcome, ret, locals, run>>

NextEdit == Next \/ EditMissing

SpecEdit == InitEdit /\ [][NextEdit]_vars

(***************************************************************************)
(* Vocabulary of the properties.                                           *)
(***************************************************************************)
InCall == pc \in {"pl_start", "pl_merge", "pl_save", "pl_remove", "pl_reload",
                  "pl_extract", "pl_ret"}
InStepA == pc \in {"pl_save", "pl_remove", "pl_reload"}

Key(e) == <<e.msgid, e.msgctxt>>

\* a translation that is absent, or empty once trimmed
Untranslated(e) == e.msgstr = None \/ trim(e.msgstr[1]) = <<>>

\* a non-header entry that lacks a translation
IsUntranslatedEntry(e) == e.msgid # "" /\ Untranslated(e)

\* the non-header entries of a missing catalog that carry a completed translation
CompletedIn(ms) == {k \in 1..Len(ms) : ms[k].msgid # "" /\ ~Untranslated(ms[k])}

NoDupCompleted(ms) ==
    \A k, l \in CompletedIn(ms) : Key(ms[k]) = Key(ms[l]) => k = l

FirstOcc(es, i) == \A j \in 1..(i - 1) : Key(es[j]) # Key(es[i])

MergedEntry(es, ms, i) ==
    IF FirstOcc(es, i) /\ \E k \in CompletedIn(ms) : Key(ms[k]) = Key(es[i])
    THEN [es[i] EXCEPT !.msgstr =
              ms[CHOOSE k \in CompletedIn(ms) : Key(ms[k]) = Key(es[i])].msgstr]
    ELSE es[i]

ExpectedMain(es, ms) == [i \in 1..Len(es) |-> MergedEntry(es, ms, i)]

HeaderPart(es) ==
    IF \E i \in 1..Len(es) : es[i].msgid = ""
    THEN <<es[CHOOSE i \in 1..Len(es) :
                 es[i].msgid = "" /\ \A j \in 1..(i - 1) : es[j].msgid # ""]>>
    ELSE <<>>

ExpectedMissing(es) == HeaderPart(es) \o SelectSeq(es, IsUntranslatedEntry)

HasUntranslated(es) == \E i \in 1..Len(es) : IsUntranslatedEntry(es[i])

\* the missing file a locale without one ends with
AsIfAbsent(es) == IF HasUntranslated(es) THEN save(ExpectedMissing(es)) ELSE Absent

\* no file operation of the current call failed
NoFileOpFailed == ~hist.call.save_failed /\ ~hist.call.delete_failed

Count(seq, v) == Cardinality({i \in 1..Len(seq) : seq[i] = v})

(***************************************************************************)
(* C1. Idempotence: when a run has processed a locale with success and the *)
(* program is run again on the tree it left, no file operation failing,    *)
(* the second run's merge-back finds no completed translation, it never    *)
(* writes messages.po, and both files of the locale stay as the first run  *)
(* left them (the recomputed catalog is the one already on disk).          *)
(***************************************************************************)
C1_Idempotent ==
    (run >= 2 /\ hist.faults = 0) =>
        \A i \in 1..Len(dir) :
            (dir[i].isDir /\ hist.prev_results[i] = "Ok") =>
                /\ dir[i] = hist.prev_dir[i]
                /\ (InCall /\ idx = i) =>
                       /\ ~has_non_empty_translations
                       /\ hist.call.main_writes = 0
                       /\ (hist.call.extracted /\ missing_count > 0) =>
                              save(new_missing_po) = hist.prev_dir[i].missing
                       /\ (hist.call.extracted /\ missing_count = 0) =>
                              ~exists(hist.prev_dir[i].missing)

\* the first run merged a translation into main and left a missing file; the
\* second run is over
C1_Witness ==
    /\ run = 2 /\ pc = "done" /\ hist.faults = 0
    /\ Len(dir) = 1 /\ hist.prev_results[1] = "Ok"
    /\ hist.first_dir[1].main.kind = "po"
    /\ hist.first_dir[1].main # dir[1].main
    /\ exists(dir[1].missing)

(***************************************************************************)
(* C2. Merge-back result: with a parsed missing catalog whose completed    *)
(* entries have distinct (msgid, msgctxt), the merged main catalog has the *)
(* entries of the loaded one, in order, with the same msgid and msgctxt;   *)
(* an entry's msgstr is replaced, by the missing entry's msgstr verbatim,  *)
(* iff it is the first main entry with the (msgid, msgctxt) of a completed *)
(* non-header missing entry.  On return without a failed file operation    *)
(* messages.po holds that catalog as saved, or is untouched.               *)
(***************************************************************************)
C2_MergeBackResult ==
    (InCall /\ hist.call.merged /\ NoDupCompleted(missing_po)) =>
        LET expected == ExpectedMain(hist.call.loaded_main, missing_po) IN
        /\ hist.call.merged_main = expected
        /\ Len(hist.call.merged_main) = Len(hist.call.loaded_main)
        /\ (pc = "pl_ret" /\ NoFileOpFailed) =>
               dir[idx].main = (IF hist.call.main_writes > 0 THEN save(expected)
                                ELSE hist.call.at_call.main)

\* main holds the same (msgid, msgctxt) twice; only the first one was updated
C2_Witness ==
    /\ pc = "pl_ret" /\ ret = "Ok" /\ hist.call.merged /\ NoFileOpFailed
    /\ NoDupCompleted(missing_po)
    /\ Len(hist.call.loaded_main) = 2
    /\ Key(hist.call.loaded_main[1]) = Key(hist.call.loaded_main[2])
    /\ hist.call.loaded_main[2].msgstr = None
    /\ updated_count = 1
    /\ dir[idx].main.entries[1].msgstr = Some(<<SP, "x">>)
    /\ dir[idx].main.entries[2].msgstr = Some(<<>>)

(***************************************************************************)
(* C3. Recompute result: the catalog extract_current_missing builds is the *)
(* first header entry of main, if main has one, followed by the non-header *)
(* entries of main whose msgstr is absent or empty once trimmed, in main's *)
(* order, and nothing else; missing_count is the number of the latter.     *)
(***************************************************************************)
C3_RecomputeResult ==
    (InCall /\ hist.call.extracted) =>
        /\ new_missing_po = ExpectedMissing(main_po)
        /\ missing_count = Len(SelectSeq(main_po, IsUntranslatedEntry))

\* main holds a whitespace-only entry before its header: the header comes first
C3_Witness ==
    /\ InCall /\ hist.call.extracted
    /\ Len(main_po) = 2
    /\ main_po[1].msgstr = Some(<<SP>>)
    /\ main_po[2].msgid = ""
    /\ new_missing_po = <<main_po[2], main_po[1]>>
    /\ missing_count = 1

(***************************************************************************)
(* C4. Missing-file existence: when process_locale returns Ok for a locale *)
(* that has a messages.po, no file operation having failed, the file       *)
(* messages-missing.po exists iff messages.po, as it is on disk then,      *)
(* holds a non-header entry whose msgstr is absent or empty once trimmed.  *)
(***************************************************************************)
C4_MissingFileExistence ==
    (pc = "pl_ret" /\ ret = "Ok" /\ exists(hist.call.at_call.main) /\ NoFileOpFailed) =>
        (exists(dir[idx].missing) <=> HasUntranslated(dir[idx].main.entries))

\* main is a header and a translated entry; an unparseable missing file is deleted
C4_Witness ==
    /\ pc = "pl_ret" /\ ret = "Ok" /\ NoFileOpFailed
    /\ hist.call.at_call.missing.kind = "corrupt"
    /\ ~exists(dir[idx].missing)
    /\ Len(dir[idx].main.entries) = 2
    /\ dir[idx].main.entries[1].msgid = ""

(***************************************************************************)
(* C5, as claimed: in Step A messages.po is rewritten, the missing file    *)
(* deleted and main reloaded only if the update counter is > 0.            *)
(***************************************************************************)
C5_GateIsUpdateCounter ==
    (InCall /\ hist.call.merged /\ updated_count = 0) =>
        /\ ~InStepA
        /\ hist.call.main_writes = 0

(***************************************************************************)
(* C5, amended: in Step A messages.po is rewritten, the missing file       *)
(* deleted and main reloaded iff the missing catalog holds a non-header    *)
(* entry with a completed translation, matched in main or not.  Without    *)
(* one, Step A writes and deletes nothing and the recompute step is given  *)
(* main as loaded.                                                         *)
(***************************************************************************)
C5_PersistGate ==
    (InCall /\ hist.call.merged) =>
        LET q == CompletedIn(missing_po) # {} IN
        /\ (InStepA \/ hist.call.main_writes > 0) => q
        /\ (q /\ pc \in {"pl_extract", "pl_ret"}) =>
               (hist.call.main_writes = 1 \/ hist.call.save_failed)
        /\ (q /\ pc = "pl_extract") =>
               /\ ~exists(dir[idx].missing)
               /\ main_po = pofile(dir[idx].main).entries
        /\ (~q /\ pc = "pl_extract") =>
               /\ dir[idx] = hist.call.at_call
               /\ hist.call.main_writes = 0
               /\ hist.call.missing_deletes = 0
               /\ main_po = hist.call.loaded_main

\* a completed translation that matches nothing in main: main was rewritten
C5_Witness ==
    /\ pc = "pl_extract" /\ hist.call.merged
    /\ updated_count = 0
    /\ hist.call.main_writes = 1
    /\ ~exists(dir[idx].missing)

(***************************************************************************)
(* C6. No qualifying merge: when every non-header entry of the missing     *)
(* catalog has an absent, empty or whitespace-only msgstr (a catalog of a  *)
(* header alone included, whatever the header's msgstr), process_locale    *)
(* never writes messages.po, main is unchanged in memory and on disk, and  *)
(* the recompute step runs on it.                                          *)
(***************************************************************************)
C6_NoQualifyingMerge ==
    (InCall /\ hist.call.merged /\ CompletedIn(missing_po) = {}) =>
        /\ ~InStepA
        /\ hist.call.main_writes = 0
        /\ dir[idx].main = hist.call.at_call.main
        /\ main_po = hist.call.loaded_main
        /\ pc = "pl_ret" => hist.call.extracted

\* the missing catalog is a header with a msgstr and a whitespace-only entry
C6_Witness ==
    /\ pc = "pl_ret" /\ hist.call.merged /\ hist.call.extracted
    /\ Len(missing_po) = 2
    /\ missing_po[1] = Header
    /\ missing_po[2].msgstr = Some(<<SP>>)
    /\ HasUntranslated(main_po)
    /\ dir[idx].main = hist.call.at_call.main

(***************************************************************************)
(* C7, as claimed: a save that fails makes process_locale return an error  *)
(* for the locale, before anything else is done to the files, and does not *)
(* end the run.                                                            *)
(***************************************************************************)
C7_PersistFailureIsFatal ==
    /\ pc # "panicked"
    /\ (InCall /\ hist.call.save_failed) => (pc = "pl_ret" /\ ret = "Err")

(***************************************************************************)
(* C8. Error isolation in the walker: when extract_missing_translations    *)
(* returns, process_locale has been called once for every directory entry  *)
(* that is a directory (and for no other), whatever calls returned an      *)
(* error; errors is the number of calls that returned an error, processed  *)
(* the number that returned Ok; the run returns Ok iff errors is zero.     *)
(***************************************************************************)
C8_WalkerIsolation ==
    /\ \A i \in 1..Len(dir) : hist.calls[i] <= 1
    /\ (pc = "done" /\ base_exists) =>
           /\ \A i \in 1..Len(dir) : hist.calls[i] = (IF dir[i].isDir THEN 1 ELSE 0)
           /\ errors = Count(hist.results, "Err")
           /\ processed = Count(hist.results, "Ok")
           /\ outcome \in {"Ok", "Err"}
           /\ (outcome = "Ok") <=> (errors = 0)

\* the first locale failed, the second one was processed, the run reports failure
C8_Witness ==
    /\ pc = "done"
    /\ Len(dir) = 2
    /\ hist.results[1] = "Err"
    /\ hist.results[2] = "Ok"
    /\ hist.calls[2] = 1
    /\ errors = 1
    /\ outcome = "Err"

(***************************************************************************)
(* C9. Unparseable missing file: when messages-missing.po exists and does  *)
(* not parse while messages.po parses, process_locale skips the merge-back,*)
(* never writes messages.po and, no file operation failing, returns Ok     *)
(* with the missing file a locale without one ends with: the catalog       *)
(* recomputed from main when an entry is untranslated, no file otherwise.  *)
(***************************************************************************)
C9_UnparseableMissing ==
    (InCall /\ hist.call.at_call.missing.kind = "corrupt"
            /\ hist.call.at_call.main.kind = "po") =>
        /\ ~hist.call.merged
        /\ hist.call.main_writes = 0
        /\ dir[idx].main = hist.call.at_call.main
        /\ (pc = "pl_ret" /\ NoFileOpFailed) =>
               /\ ret = "Ok"
               /\ dir[idx].missing = AsIfAbsent(hist.call.at_call.main.entries)

\* the unparseable file was overwritten by the recomputed catalog
C9_Witness ==
    /\ pc = "pl_ret" /\ ret = "Ok"
    /\ hist.call.at_call.missing.kind = "corrupt"
    /\ dir[idx].missing.kind = "po"
    /\ Len(dir[idx].missing.entries) = 2

(***************************************************************************)
(* C10. Absence handling: for a locale directory without messages.po,      *)
(* process_locale returns Ok having created, rewritten and deleted no file *)
(* (a messages-missing.po of the directory is left as it was), and the     *)
(* walker does not increment errors.                                       *)
(***************************************************************************)
C10_AbsentMainSkipped ==
    /\ (InCall /\ ~exists(hist.call.at_call.main)) =>
           /\ pc \in {"pl_start", "pl_ret"}
           /\ dir[idx] = hist.call.at_call
           /\ hist.call.main_writes = 0
           /\ hist.call.missing_writes = 0
           /\ hist.call.missing_deletes = 0
           /\ pc = "pl_ret" => ret = "Ok"
    /\ (pc \in {"walk", "done"} /\ hist.call.at_call.isDir
            /\ ~exists(hist.call.at_call.main)) =>
           /\ dir[hist.call.at_idx] = hist.call.at_call
           /\ hist.results[hist.call.at_idx] = "Ok"
           /\ errors = hist.call.errors_before

\* the call is over and tallied; the directory held a messages-missing.po alone
C10_Witness ==
    /\ pc = "walk"
    /\ hist.call.at_call.isDir
    /\ ~exists(hist.call.at_call.main)
    /\ hist.call.at_call.missing.kind = "po"
    /\ Len(hist.call.at_call.missing.entries) = 2
    /\ processed = 1
    /\ errors = 0

(***************************************************************************)
(* C11, as claimed: in one call of process_locale messages.po is rewritten *)
(* at most once and messages-missing.po is rewritten or deleted at most    *)
(* once, not both.                                                         *)
(***************************************************************************)
C11_OneMissingOperation ==
    InCall =>
        /\ hist.call.main_writes <= 1
        /\ hist.call.missing_writes + hist.call.missing_deletes <= 1

(***************************************************************************)
(* C11, amended: in one call of process_locale messages.po is rewritten at *)
(* most once, and messages-missing.po is deleted at most once and          *)
(* rewritten at most once; it is both deleted and rewritten exactly when   *)
(* Step A ran and an entry of main is still untranslated, the deletion     *)
(* (Step A) coming before the rewrite (Step C).                            *)
(***************************************************************************)
C11_SideEffectBound ==
    InCall =>
        /\ hist.call.main_writes <= 1
        /\ hist.call.missing_writes <= 1
        /\ hist.call.missing_deletes <= 1
        /\ (hist.call.missing_writes = 1 /\ hist.call.missing_deletes = 1) =>
               /\ has_non_empty_translations
               /\ missing_count > 0
               /\ hist.call.log = <<"save_main", "remove_missing", "reload", "extract">>
        /\ (hist.call.missing_deletes = 1 /\ ~has_non_empty_translations) =>
               hist.call.missing_writes = 0

\* a translation was merged, the missing file deleted, and written anew for the
\* entry that is still untranslated
C11_Witness ==
    /\ pc = "pl_ret" /\ ret = "Ok"
    /\ hist.call.main_writes = 1
    /\ hist.call.missing_deletes = 1
    /\ hist.call.missing_writes = 1
    /\ updated_count = 1

(***************************************************************************)
(* C12. Reload-after-save ordering: when the merge-back step has saved     *)
(* messages.po, the file operations of the call come in the order save     *)
(* main, remove missing, reload main, recompute; and on every path the     *)
(* catalog given to extract_current_missing is the one a load of           *)
(* messages.po returns at that moment.                                     *)
(***************************************************************************)
C12_ReloadAfterSave ==
    InCall =>
        /\ (InStepA \/ has_non_empty_translations) =>
               \E n \in 0..4 :
                   hist.call.log =
                       SubSeq(<<"save_main", "remove_missing", "reload", "extract">>, 1, n)
        /\ hist.call.extracted =>
               /\ pofile(dir[idx].main).ok
               /\ main_po = pofile(dir[idx].main).entries
        /\ pc = "pl_extract" =>
               /\ pofile(dir[idx].main).ok
               /\ main_po = pofile(dir[idx].main).entries

\* the saved catalog differs from the one in memory (an entry had no msgstr), and
\* the recompute step was given the one read back
C12_Witness ==
    /\ pc = "pl_ret" /\ ret = "Ok"
    /\ hist.call.main_writes = 1
    /\ hist.call.log = <<"save_main", "remove_missing", "reload", "extract">>
    /\ hist.call.merged_main # dir[idx].main.entries
    /\ main_po = dir[idx].main.entries
    /\ missing_count > 0

(***************************************************************************)
(* C13. Derived-catalog consistency: when process_locale returns Ok, no    *)
(* file operation having failed, and leaves a messages-missing.po, that    *)
(* file is the saved derivation of messages.po as it is on disk: every     *)
(* non-header entry of it is untranslated and is an entry of main as save  *)
(* writes it, every untranslated entry of main is in it, and nothing of    *)
(* the missing file found at the call is in it on its own.                 *)
(***************************************************************************)
C13_DerivedCatalog ==
    (pc = "pl_ret" /\ ret = "Ok" /\ NoFileOpFailed /\ exists(hist.call.at_call.main)
                   /\ exists(dir[idx].missing)) =>
        LET main == dir[idx].main.entries
            miss == dir[idx].missing.entries
        IN
        /\ dir[idx].missing = save(ExpectedMissing(main))
        /\ \A k \in 1..Len(miss) :
               /\ miss[k].msgid # "" => Untranslated(miss[k])
               /\ \E i \in 1..Len(main) : miss[k] = to_string_entry(main[i])
        /\ \A i \in 1..Len(main) :
               IsUntranslatedEntry(main[i]) =>
                   \E k \in 1..Len(miss) : miss[k] = to_string_entry(main[i])

\* the missing file held a translation for an entry that main does not have; the
\* file left holds main's header and main's untranslated entry only
C13_Witness ==
    /\ pc = "pl_ret" /\ ret = "Ok" /\ NoFileOpFailed
    /\ hist.call.merged
    /\ \E k \in CompletedIn(missing_po) :
           \A i \in 1..Len(hist.call.loaded_main) :
               Key(hist.call.loaded_main[i]) # Key(missing_po[k])
    /\ exists(dir[idx].missing)
    /\ Len(dir[idx].missing.entries) = 2
    /\ dir[idx].missing.entries[1].msgid = ""
    /\ \A k \in 1..Len(dir[idx].missing.entries) :
           \A j \in 1..Len(missing_po) :
               dir[idx].missing.entries[k].msgid # "" =>
                   Key(dir[idx].missing.entries[k]) # Key(missing_po[j])

(***************************************************************************)
(* C14. Main load failure has no side effects: when messages.po exists and *)
(* does not parse, process_locale returns an error, whatever the missing   *)
(* file is, having written and deleted nothing: both files are as they     *)
(* were.                                                                   *)
(***************************************************************************)
C14_MainLoadFailure ==
    (InCall /\ hist.call.at_call.main.kind = "corrupt") =>
        /\ pc \in {"pl_start", "pl_ret"}
        /\ dir[idx] = hist.call.at_call
        /\ hist.call.log = <<>>
        /\ hist.call.main_writes = 0
        /\ hist.call.missing_writes = 0
        /\ hist.call.missing_deletes = 0
        /\ pc = "pl_ret" => ret = "Err"

\* main does not parse and the missing file holds a completed translation
C14_Witness ==
    /\ pc = "pl_ret" /\ ret = "Err"
    /\ hist.call.at_call.main.kind = "corrupt"
    /\ hist.call.at_call.missing.kind = "po"
    /\ CompletedIn(hist.call.at_call.missing.entries) # {}
    /\ dir[idx] = hist.call.at_call

(***************************************************************************)
(* C15. Translations are never lost from main: over runs with edits of the *)
(* missing file in between, in every step messages.po stays a PO file of   *)
(* the same length, an entry of it whose msgstr is non-empty once trimmed  *)
(* stays so, the number of its untranslated non-header entries does not    *)
(* grow, and the merge-back loop puts into main only a msgstr that is      *)
(* non-empty once trimmed.                                                 *)
(***************************************************************************)
UntranslatedCount(es) == Cardinality({k \in 1..Len(es) : IsUntranslatedEntry(es[k])})

TranslationsKept ==
    \A i \in 1..Len(dir) :
        dir[i].main.kind = "po" =>
            /\ dir'[i].main.kind = "po"
            /\ Len(dir'[i].main.entries) = Len(dir[i].main.entries)
            /\ \A k \in 1..Len(dir[i].main.entries) :
                   ~Untranslated(dir[i].main.entries[k]) =>
                       ~Untranslated(dir'[i].main.entries[k])
            /\ UntranslatedCount(dir'[i].main.entries)
                   <= UntranslatedCount(dir[i].main.entries)

MergeWritesCompleted ==
    (pc = "pl_merge" /\ pc' # "pl_merge") =>
        \A k \in 1..Len(main_po) :
            main_po'[k] # main_po[k] => ~Untranslated(main_po'[k])

C15_TranslationsNeverLost == [][TranslationsKept /\ MergeWritesCompleted]_vars

\* before the second run the missing file was edited; the run put its translation
\* in place of the one main had, and main has no more untranslated entries than before
C15_Witness ==
    /\ run = 2 /\ hist.edited_run = 2
    /\ pc = "pl_ret" /\ ret = "Ok"
    /\ hist.call.main_writes = 1
    /\ \E k \in 1..Len(hist.call.loaded_main) :
           /\ hist.call.loaded_main[k].msgstr = Some(<<"y">>)
           /\ dir[idx].main.entries[k].msgstr = Some(<<SP, "x">>)
    /\ UntranslatedCount(dir[idx].main.entries)
           = UntranslatedCount(hist.call.at_call.main.entries)
====
